---- MODULE Spec2Model ----
(***************************************************************************)
(* A model of the sokol-py binding generator                               *)
(* (src/generator/generate_bindings.py): SokolParser, which walks the      *)
(* libclang cursor tree and fills the symbol table, BindingGenerator,      *)
(* which serialises the symbol table into the text of a ctypes module,     *)
(* and the loader functions of that emitted module.                        *)
(*                                                                         *)
(* Python str values are TLA+ strings; TLC evaluates Len, SubSeq and \o on *)
(* them, so the string processing of the generator is modelled character   *)
(* by character.                                                           *)
(***************************************************************************)
EXTENDS Integers, Sequences, FiniteSets, TLC

\* ------------------------------------------------------------------------
\* Python str operations
\* ------------------------------------------------------------------------

\* s[i-1] in Python (1-based here); "" outside the string
ChAt(s, i) == IF i >= 1 /\ i <= Len(s) THEN SubSeq(s, i, i) ELSE ""

\* s.startswith(p, i-1)
StartsWithAt(s, p, i) ==
    /\ i >= 1
    /\ i + Len(p) - 1 <= Len(s)
    /\ SubSeq(s, i, i + Len(p) - 1) = p

\* s.startswith(p)
StartsWith(s, p) == StartsWithAt(s, p, 1)

\* s.endswith(p)
EndsWith(s, p) == StartsWithAt(s, p, Len(s) - Len(p) + 1)

\* p in s
Contains(s, p) == \E i \in 1..(Len(s) + 1) : StartsWithAt(s, p, i)

RECURSIVE ReplaceFrom(_, _, _, _)
ReplaceFrom(s, old, new, i) ==
    IF i > Len(s) THEN ""
    ELSE IF StartsWithAt(s, old, i)
         THEN new \o ReplaceFrom(s, old, new, i + Len(old))
         ELSE ChAt(s, i) \o ReplaceFrom(s, old, new, i + 1)

\* s.replace(old, new), old non-empty: leftmost non-overlapping occurrences
Replace(s, old, new) == ReplaceFrom(s, old, new, 1)

IsSpace(c) == c \in {" ", "\t", "\n", "\r"}

IsDigit(c) == c \in {"0", "1", "2", "3", "4", "5", "6", "7", "8", "9"}

RECURSIVE SkipWs(_, _)
\* the first position >= i that holds no whitespace (Len(s) + 1 if none)
SkipWs(s, i) == IF i <= Len(s) /\ IsSpace(ChAt(s, i)) THEN SkipWs(s, i + 1) ELSE i

RECURSIVE SkipWsBack(_, _)
\* the last position <= i that holds no whitespace (0 if none)
SkipWsBack(s, i) == IF i >= 1 /\ IsSpace(ChAt(s, i)) THEN SkipWsBack(s, i - 1) ELSE i

RECURSIVE SkipDigits(_, _)
SkipDigits(s, i) == IF i <= Len(s) /\ IsDigit(ChAt(s, i)) THEN SkipDigits(s, i + 1) ELSE i

\* s.strip()
Strip(s) ==
    LET a == SkipWs(s, 1)
        b == SkipWsBack(s, Len(s))
    IN  IF a > b THEN "" ELSE SubSeq(s, a, b)

DigitVal(c) ==
    CASE c = "0" -> 0 [] c = "1" -> 1 [] c = "2" -> 2 [] c = "3" -> 3 [] c = "4" -> 4
      [] c = "5" -> 5 [] c = "6" -> 6 [] c = "7" -> 7 [] c = "8" -> 8 [] c = "9" -> 9

RECURSIVE ParseNat(_, _)
\* int(s) for a string of digits, acc the value of the digits already read
ParseNat(s, acc) ==
    IF s = "" THEN acc ELSE ParseNat(Tail(s), 10 * acc + DigitVal(Head(s)))

\* int(s) for an optionally signed string of digits
ParseInt(s) == IF StartsWith(s, "-") THEN 0 - ParseNat(Tail(s), 0) ELSE ParseNat(s, 0)

\* whether s is an integer literal as str(int) prints it
IsIntLiteral(s) ==
    LET d == IF StartsWith(s, "-") THEN Tail(s) ELSE s
    IN  d # "" /\ SkipDigits(d, 1) = Len(d) + 1

\* str(n) / f"{n}"
Str(n) == ToString(n)

RECURSIVE Join(_, _)
\* sep.join(parts)
Join(sep, parts) ==
    IF parts = <<>> THEN ""
    ELSE IF Len(parts) = 1 THEN parts[1]
         ELSE parts[1] \o sep \o Join(sep, Tail(parts))

\* ------------------------------------------------------------------------
\* Python dict with insertion order (OrderedDict): a sequence of [k, v]
\* ------------------------------------------------------------------------

Keys(d) == [i \in 1..Len(d) |-> d[i].k]

KeySet(d) == {d[i].k : i \in 1..Len(d)}

\* k in d
Has(d, k) == k \in KeySet(d)

\* d[k]
Get(d, k) == d[CHOOSE i \in 1..Len(d) : d[i].k = k].v

\* d[k] = v: a new key goes last, an existing key keeps its place
Put(d, k, v) ==
    IF Has(d, k)
    THEN [i \in 1..Len(d) |-> IF d[i].k = k THEN [k |-> k, v |-> v] ELSE d[i]]
    ELSE Append(d, [k |-> k, v |-> v])

\* ------------------------------------------------------------------------
\* libclang values the parser reads: Type and Cursor
\* ------------------------------------------------------------------------

\* Optional[int]
None == <<>>
Some(n) == <<n>>

\* a clang Type: kind, spelling, const qualification, the pointee / element /
\* result type (inner), the array size and the argument types
MkType(kind, spelling, inner, size, args, const) ==
    [kind |-> kind, spelling |-> spelling, inner |-> inner, size |-> size,
     args |-> args, const |-> const]

TPrim(kind, spelling) == MkType(kind, spelling, <<>>, 0, <<>>, FALSE)
TPtr(pointee, spelling) == MkType("POINTER", spelling, <<pointee>>, 0, <<>>, FALSE)
TArr(elem, n, spelling) == MkType("CONSTANTARRAY", spelling, <<elem>>, n, <<>>, FALSE)
TFn(result, args, spelling) == MkType("FUNCTIONPROTO", spelling, <<result>>, 0, args, FALSE)

\* the "unnamed" / "(" test applied to a cleaned spelling
Unnamed(type_str) == Contains(type_str, "unnamed") \/ Contains(type_str, "(")

RECURSIVE GetTypeString(_)
\* SokolParser._get_type_string
GetTypeString(t) ==
    CASE t.kind = "VOID" -> "void"
      [] t.kind = "BOOL" -> "bool"
      [] t.kind \in {"CHAR_S", "SCHAR"} -> "char"
      [] t.kind \in {"CHAR_U", "UCHAR"} -> "unsigned char"
      [] t.kind = "SHORT" -> "short"
      [] t.kind = "USHORT" -> "unsigned short"
      [] t.kind = "INT" -> "int"
      [] t.kind = "UINT" -> "unsigned int"
      [] t.kind = "LONG" -> "long"
      [] t.kind = "ULONG" -> "unsigned long"
      [] t.kind = "LONGLONG" -> "long long"
      [] t.kind = "ULONGLONG" -> "unsigned long long"
      [] t.kind = "FLOAT" -> "float"
      [] t.kind = "DOUBLE" -> "double"
      [] t.kind = "POINTER" ->
            LET pointee == t.inner[1]
            IN  IF pointee.kind = "VOID"
                THEN IF t.const \/ Contains(t.spelling, "const")
                     THEN "const void *"
                     ELSE "void *"
                ELSE IF pointee.kind = "CHAR_S" THEN "const char *"
                ELSE IF pointee.kind = "FUNCTIONPROTO" THEN t.spelling
                ELSE GetTypeString(pointee) \o " *"
      [] t.kind = "CONSTANTARRAY" ->
            GetTypeString(t.inner[1]) \o "[" \o Str(t.size) \o "]"
      [] t.kind = "TYPEDEF" -> t.spelling
      [] t.kind = "ELABORATED" ->
            LET type_str == Replace(Replace(t.spelling, "struct ", ""), "enum ", "")
            IN  IF Unnamed(type_str) THEN "int" ELSE type_str
      [] t.kind = "RECORD" ->
            LET type_str == Replace(t.spelling, "struct ", "")
            IN  IF Unnamed(type_str) THEN "int" ELSE type_str
      [] t.kind = "ENUM" ->
            LET type_str == Replace(t.spelling, "enum ", "")
            IN  IF Unnamed(type_str) THEN "int" ELSE type_str
      [] OTHER ->
            IF t.spelling # ""
            THEN LET clean == Replace(Replace(t.spelling, "struct ", ""), "enum ", "")
                 IN  IF Unnamed(clean) THEN "int" ELSE clean
            ELSE "int"

\* ------------------------------------------------------------------------
\* Type conversion at emission: C type string -> ctypes expression
\* ------------------------------------------------------------------------

C_TO_CTYPES_KEYS ==
    {"void", "bool", "_Bool", "char", "signed char", "unsigned char", "short",
     "unsigned short", "int", "unsigned int", "long", "unsigned long", "long long",
     "unsigned long long", "float", "double", "size_t", "ssize_t", "int8_t",
     "uint8_t", "int16_t", "uint16_t", "int32_t", "uint32_t", "int64_t",
     "uint64_t", "uintptr_t", "intptr_t", "ptrdiff_t", "wchar_t"}

C_TO_CTYPES(c) ==
    CASE c = "void" -> "None"
      [] c = "bool" -> "c_bool"
      [] c = "_Bool" -> "c_bool"
      [] c = "char" -> "c_char"
      [] c = "signed char" -> "c_byte"
      [] c = "unsigned char" -> "c_ubyte"
      [] c = "short" -> "c_short"
      [] c = "unsigned short" -> "c_ushort"
      [] c = "int" -> "c_int"
      [] c = "unsigned int" -> "c_uint"
      [] c = "long" -> "c_long"
      [] c = "unsigned long" -> "c_ulong"
      [] c = "long long" -> "c_longlong"
      [] c = "unsigned long long" -> "c_ulonglong"
      [] c = "float" -> "c_float"
      [] c = "double" -> "c_double"
      [] c = "size_t" -> "c_size_t"
      [] c = "ssize_t" -> "c_ssize_t"
      [] c = "int8_t" -> "c_int8"
      [] c = "uint8_t" -> "c_uint8"
      [] c = "int16_t" -> "c_int16"
      [] c = "uint16_t" -> "c_uint16"
      [] c = "int32_t" -> "c_int32"
      [] c = "uint32_t" -> "c_uint32"
      [] c = "int64_t" -> "c_int64"
      [] c = "uint64_t" -> "c_uint64"
      [] c = "uintptr_t" -> "c_size_t"
      [] c = "intptr_t" -> "c_ssize_t"
      [] c = "ptrdiff_t" -> "c_ssize_t"
      [] c = "wchar_t" -> "c_wchar"

\* re.match(r'(.+?)\s*\(\s*\*\s*\)\s*\((.*)\)', s) is not None
FuncPtrMatch(s) ==
    \E i \in 2..Len(s) :
        LET j1 == SkipWs(s, i)
            j2 == SkipWs(s, j1 + 1)
            j3 == SkipWs(s, j2 + 1)
            j4 == SkipWs(s, j3 + 1)
        IN  /\ ChAt(s, j1) = "("
            /\ ChAt(s, j2) = "*"
            /\ ChAt(s, j3) = ")"
            /\ ChAt(s, j4) = "("
            /\ \E k \in (j4 + 1)..Len(s) : ChAt(s, k) = ")"

\* the positions of "[" at which \[(\d+)\] matches, after a non-empty group 1
ArrayBrackets(s) ==
    {p \in 2..Len(s) :
        /\ ChAt(s, p) = "["
        /\ SkipDigits(s, p + 1) > p + 1
        /\ ChAt(s, SkipDigits(s, p + 1)) = "]"}

\* re.match(r'(.+)\[(\d+)\]', s) is not None
ArrayMatch(s) == ArrayBrackets(s) # {}

\* the greedy group 1 ends at the last bracket that matches
ArrayBracket(s) == CHOOSE p \in ArrayBrackets(s) : \A q \in ArrayBrackets(s) : q <= p

\* match.group(1) and int(match.group(2))
ArrayElem(s) == SubSeq(s, 1, ArrayBracket(s) - 1)
ArraySize(s) ==
    ParseInt(SubSeq(s, ArrayBracket(s) + 1, SkipDigits(s, ArrayBracket(s) + 1) - 1))

\* the pointer branch of _convert_type (c_type ends with "*")
ConvertPointer(p, gen, c_type) ==
    LET base_type == Replace(Strip(SubSeq(c_type, 1, Len(c_type) - 1)), "const ", "")
    IN  IF Contains(base_type, "void") THEN "c_void_p"
        ELSE IF Contains(base_type, "char") THEN "c_char_p"
        ELSE IF Has(p.structs, base_type) \/ base_type \in gen
             THEN "POINTER(" \o base_type \o ")"
        ELSE IF base_type \in C_TO_CTYPES_KEYS
             THEN "POINTER(" \o C_TO_CTYPES(base_type) \o ")"
        ELSE "c_void_p"

\* what a call that exceeds Python's recursion limit gives
RecursionError == "<RecursionError>"

RECURSIVE ConvertTypeRec(_, _, _, _)
\* BindingGenerator._convert_type with fuel recursive calls left; the
\* recursion of the code has no cycle detection
ConvertTypeRec(p, gen, c_type_in, fuel) ==
    LET c_type == Strip(c_type_in)
        c_type_clean == Strip(Replace(c_type, "const ", ""))
    IN  IF FuncPtrMatch(c_type_clean) THEN "c_void_p"
        ELSE IF c_type_clean \in C_TO_CTYPES_KEYS THEN C_TO_CTYPES(c_type_clean)
        ELSE IF EndsWith(c_type, "*") THEN ConvertPointer(p, gen, c_type)
        ELSE IF Has(p.structs, c_type_clean) \/ c_type_clean \in gen THEN c_type_clean
        ELSE IF Has(p.enums, c_type_clean) THEN "c_int"
        ELSE IF Has(p.typedefs, c_type_clean)
             THEN IF fuel = 0 THEN RecursionError
                  ELSE ConvertTypeRec(p, gen, Get(p.typedefs, c_type_clean), fuel - 1)
        ELSE IF Has(p.func_typedefs, c_type_clean) THEN c_type_clean
        ELSE IF ArrayMatch(c_type_clean)
             THEN IF fuel = 0 THEN RecursionError
                  ELSE LET elem == ConvertTypeRec(p, gen, Strip(ArrayElem(c_type_clean)),
                                                  fuel - 1)
                       IN  IF elem = RecursionError THEN RecursionError
                           ELSE elem \o " * " \o Str(ArraySize(c_type_clean))
        ELSE "c_int"

RECURSIVE MaxLen(_)
MaxLen(strs) == IF strs = <<>> THEN 0
                ELSE LET m == MaxLen(Tail(strs))
                     IN  IF Len(Head(strs)) > m THEN Len(Head(strs)) ELSE m

\* BindingGenerator._convert_type: a chain of calls longer than the typedef
\* table plus the brackets the strings can hold revisits a typedef, and then
\* never ends
ConvertType(p, gen, c_type) ==
    ConvertTypeRec(p, gen, c_type,
                   Len(p.typedefs) + Len(c_type)
                     + MaxLen([i \in 1..Len(p.typedefs) |-> p.typedefs[i].v]))

\* ------------------------------------------------------------------------
\* Cursors
\* ------------------------------------------------------------------------

NoType == TPrim("INVALID", "")

\* a clang Cursor: kind, spelling, the file of its location ("" for none),
\* is_definition(), enum_value, type (of a field or parameter), result_type,
\* underlying_typedef_type and get_children()
MkCursor(kind, spelling, file, is_def, value, type, result, underlying, children) ==
    [kind |-> kind, spelling |-> spelling, file |-> file, is_def |-> is_def,
     enum_value |-> value, type |-> type, result_type |-> result,
     underlying |-> underlying, children |-> children]

\* ------------------------------------------------------------------------
\* SokolParser
\* ------------------------------------------------------------------------

\* SokolParser.__init__: the five maps and the two sets, all empty
ParserInit ==
    [enums |-> <<>>, structs |-> <<>>, typedefs |-> <<>>, functions |-> <<>>,
     func_typedefs |-> <<>>, seen_types |-> {}, forward_decls |-> {}]

RECURSIVE EnumValues(_)
\* the (spelling, enum_value) pairs of the ENUM_CONSTANT_DECL children
EnumValues(children) ==
    IF children = <<>> THEN <<>>
    ELSE LET child == Head(children)
         IN  IF child.kind = "ENUM_CONSTANT_DECL"
             THEN <<[name |-> child.spelling, value |-> child.enum_value]>>
                    \o EnumValues(Tail(children))
             ELSE EnumValues(Tail(children))

\* _process_enum without the test for an already captured name
ProcessEnumNoGuard(p, cursor) ==
    LET name == cursor.spelling
        values == EnumValues(cursor.children)
    IN  IF name = "" THEN p
        ELSE IF values # <<>> THEN [p EXCEPT !.enums = Put(p.enums, name, values)]
        ELSE p

\* SokolParser._process_enum
ProcessEnum(p, cursor) ==
    LET name == cursor.spelling
        values == EnumValues(cursor.children)
    IN  IF name = "" THEN p
        ELSE IF Has(p.enums, name) THEN p
        ELSE IF values # <<>> THEN [p EXCEPT !.enums = Put(p.enums, name, values)]
        ELSE p

RECURSIVE TypeStrings(_)
TypeStrings(types) ==
    IF types = <<>> THEN <<>>
    ELSE <<GetTypeString(Head(types))>> \o TypeStrings(Tail(types))

\* one FIELD_DECL of _process_struct: the field entry and the function-pointer
\* types after it
StructField(ft, child) ==
    LET field_name == child.spelling
        is_func_ptr == /\ child.type.kind = "POINTER"
                       /\ child.type.inner[1].kind = "FUNCTIONPROTO"
        pointee == child.type.inner[1]
        func_ptr_name == "_FuncPtr_" \o field_name
        is_array == child.type.kind = "CONSTANTARRAY"
        field_type == IF is_array THEN GetTypeString(child.type.inner[1])
                      ELSE IF is_func_ptr THEN func_ptr_name
                      ELSE GetTypeString(child.type)
        array_size == IF is_array THEN Some(child.type.size) ELSE None
    IN  [field |-> [name |-> field_name, type |-> field_type, size |-> array_size],
         ft |-> IF is_func_ptr
                THEN Put(ft, func_ptr_name,
                         [ret |-> GetTypeString(pointee.inner[1]),
                          args |-> TypeStrings(pointee.args)])
                ELSE ft]

RECURSIVE StructFields(_, _)
\* the loop over the children of _process_struct: acc holds the fields and
\* the function-pointer types so far
StructFields(children, acc) ==
    IF children = <<>> THEN acc
    ELSE LET child == Head(children)
         IN  IF child.kind = "FIELD_DECL"
             THEN LET r == StructField(acc.ft, child)
                  IN  StructFields(Tail(children),
                                   [fields |-> Append(acc.fields, r.field), ft |-> r.ft])
             ELSE StructFields(Tail(children), acc)

\* SokolParser._process_struct
ProcessStruct(p, cursor) ==
    LET name == cursor.spelling
        r == StructFields(cursor.children, [fields |-> <<>>, ft |-> p.func_typedefs])
    IN  IF name = "" THEN p
        ELSE IF Contains(name, "unnamed") \/ Contains(name, "(") \/ Contains(name, " ")
             THEN p
        ELSE IF ~cursor.is_def
             THEN [p EXCEPT !.forward_decls = p.forward_decls \cup {name}]
        ELSE IF Has(p.structs, name) THEN p
        ELSE IF r.fields # <<>>
             THEN [p EXCEPT !.func_typedefs = r.ft,
                            !.structs = Put(p.structs, name, r.fields)]
             ELSE [p EXCEPT !.func_typedefs = r.ft]

\* SokolParser._process_func_typedef
ProcessFuncTypedef(p, name, func_type) ==
    [p EXCEPT !.func_typedefs =
        Put(p.func_typedefs, name,
            [ret |-> GetTypeString(func_type.inner[1]),
             args |-> TypeStrings(func_type.args)])]

RECURSIVE TypedefStructFields(_)
\* the field loop of _process_typedef for an anonymous struct
TypedefStructFields(children) ==
    IF children = <<>> THEN <<>>
    ELSE LET field == Head(children)
             is_array == field.type.kind = "CONSTANTARRAY"
         IN  IF field.kind = "FIELD_DECL"
             THEN <<[name |-> field.spelling,
                     type |-> IF is_array THEN GetTypeString(field.type.inner[1])
                              ELSE GetTypeString(field.type),
                     size |-> IF is_array THEN Some(field.type.size) ELSE None]>>
                    \o TypedefStructFields(Tail(children))
             ELSE TypedefStructFields(Tail(children))

RECURSIVE TypedefChildren(_, _, _)
\* the loop over the children of _process_typedef: the first ENUM_DECL or
\* STRUCT_DECL child ends the function; without one the typedef is a scalar
TypedefChildren(p, cursor, children) ==
    IF children = <<>>
    THEN [p EXCEPT !.typedefs =
            Put(p.typedefs, cursor.spelling, GetTypeString(cursor.underlying))]
    ELSE LET child == Head(children)
         IN  IF child.kind = "ENUM_DECL"
             THEN LET values == EnumValues(child.children)
                  IN  IF values # <<>>
                      THEN [p EXCEPT !.enums = Put(p.enums, cursor.spelling, values)]
                      ELSE p
             ELSE IF child.kind = "STRUCT_DECL"
             THEN IF child.spelling = ""
                  THEN LET fields == TypedefStructFields(child.children)
                       IN  IF fields # <<>>
                           THEN [p EXCEPT !.structs =
                                    Put(p.structs, cursor.spelling, fields)]
                           ELSE p
                  ELSE p
             ELSE TypedefChildren(p, cursor, Tail(children))

\* SokolParser._process_typedef
ProcessTypedef(p, cursor) ==
    LET name == cursor.spelling
        underlying == cursor.underlying
        type_str == underlying.spelling
    IN  IF name = "" THEN p
        ELSE IF Has(p.typedefs, name) \/ Has(p.structs, name) \/ Has(p.enums, name)
             THEN p
        ELSE IF underlying.kind = "POINTER" /\ underlying.inner[1].kind = "FUNCTIONPROTO"
             THEN ProcessFuncTypedef(p, name, underlying.inner[1])
        ELSE IF StartsWith(type_str, "struct ")
                  /\ SubSeq(type_str, 8, Len(type_str)) = name
             THEN p
        ELSE TypedefChildren(p, cursor, cursor.children)

RECURSIVE FunctionArgs(_, _)
\* the loop over cursor.get_arguments() of _process_function
FunctionArgs(children, args) ==
    IF children = <<>> THEN args
    ELSE LET arg == Head(children)
         IN  IF arg.kind = "PARM_DECL"
             THEN FunctionArgs(Tail(children),
                    Append(args,
                           [name |-> IF arg.spelling # "" THEN arg.spelling
                                     ELSE "arg" \o Str(Len(args)),
                            type |-> GetTypeString(arg.type)]))
             ELSE FunctionArgs(Tail(children), args)

\* _process_function without the test for a captured name: the last
\* declaration wins
ProcessFunctionLastWins(p, cursor) ==
    LET name == cursor.spelling
    IN  IF name = "" THEN p
        ELSE IF ~(\/ StartsWith(name, "sg_") \/ StartsWith(name, "sapp_")
                  \/ StartsWith(name, "sglue_") \/ StartsWith(name, "slog_"))
             THEN p
        ELSE [p EXCEPT !.functions =
                Put(p.functions, name,
                    [ret |-> GetTypeString(cursor.result_type),
                     args |-> FunctionArgs(cursor.children, <<>>)])]

\* SokolParser._process_function
ProcessFunction(p, cursor) ==
    LET name == cursor.spelling
    IN  IF name = "" THEN p
        ELSE IF ~(\/ StartsWith(name, "sg_") \/ StartsWith(name, "sapp_")
                  \/ StartsWith(name, "sglue_") \/ StartsWith(name, "slog_"))
             THEN p
        ELSE IF Has(p.functions, name) THEN p
        ELSE [p EXCEPT !.functions =
                Put(p.functions, name,
                    [ret |-> GetTypeString(cursor.result_type),
                     args |-> FunctionArgs(cursor.children, <<>>)])]

\* the dispatch on cursor.kind of _visit_cursor
ProcessCursor(p, cursor) ==
    CASE cursor.kind = "ENUM_DECL" -> ProcessEnum(p, cursor)
      [] cursor.kind = "STRUCT_DECL" -> ProcessStruct(p, cursor)
      [] cursor.kind = "TYPEDEF_DECL" -> ProcessTypedef(p, cursor)
      [] cursor.kind = "FUNCTION_DECL" -> ProcessFunction(p, cursor)
      [] OTHER -> p

\* whether a cursor's file is one of the library's headers
InSokolFile(file_name) == Contains(file_name, "sokol_") \/ Contains(file_name, "sokol/")

RECURSIVE VisitCursor(_, _)
RECURSIVE VisitChildren(_, _)
\* SokolParser._visit_cursor: a cursor of a foreign file is not processed,
\* its children are still visited
VisitCursor(p, cursor) ==
    IF cursor.file # "" /\ ~InSokolFile(cursor.file)
    THEN VisitChildren(p, cursor.children)
    ELSE VisitChildren(ProcessCursor(p, cursor), cursor.children)

VisitChildren(p, children) ==
    IF children = <<>> THEN p
    ELSE VisitChildren(VisitCursor(p, Head(children)), Tail(children))

\* ------------------------------------------------------------------------
\* BindingGenerator: the emitted lines
\* ------------------------------------------------------------------------

\* BindingGenerator._write_header
HeaderLines ==
    <<"\"\"\"",
      "Sokol Python Bindings (Auto-generated)",
      "",
      "This module was automatically generated by generate_bindings.py",
      "from the Sokol C headers using libclang.",
      "",
      "Usage:",
      "    from sokol_bindings import *",
      "    sokol = load_sokol_dll('sokol-dll.dll')",
      "\"\"\"",
      "">>

\* BindingGenerator._write_imports
ImportsLines ==
    <<"import ctypes",
      "from ctypes import (",
      "    Structure, Union, POINTER, CFUNCTYPE,",
      "    c_bool, c_char, c_byte, c_ubyte, c_short, c_ushort,",
      "    c_int, c_uint, c_long, c_ulong, c_longlong, c_ulonglong,",
      "    c_float, c_double, c_size_t, c_ssize_t, c_void_p, c_char_p,",
      "    c_int8, c_uint8, c_int16, c_uint16, c_int32, c_uint32,",
      "    c_int64, c_uint64, c_wchar, c_wchar_p,",
      "    byref, cast, sizeof, addressof,",
      ")",
      "from pathlib import Path",
      "from typing import Optional, Any",
      "",
      "# Platform detection",
      "import sys",
      "if sys.platform == 'win32':",
      "    from ctypes import windll, WinDLL",
      "">>

\* BindingGenerator._write_type_helpers
TypeHelpersLines ==
    <<"# =============================================================================",
      "# Type Helpers",
      "# =============================================================================",
      "",
      "# C type aliases",
      "c_bool_p = POINTER(c_bool)",
      "c_float_p = POINTER(c_float)",
      "c_double_p = POINTER(c_double)",
      "c_int_p = POINTER(c_int)",
      "c_uint_p = POINTER(c_uint)",
      "c_uint8_p = POINTER(c_uint8)",
      "c_uint32_p = POINTER(c_uint32)",
      "">>

\* the banner of _write_enums
SectionEnums ==
    <<"# =============================================================================",
      "# Enums",
      "# =============================================================================",
      "">>

\* the banner of _write_forward_declarations
SectionForward ==
    <<"# =============================================================================",
      "# Forward Declarations",
      "# =============================================================================",
      "">>

\* the banner of _write_structs
SectionStructs ==
    <<"# =============================================================================",
      "# Structures",
      "# =============================================================================",
      "">>

\* the banner of _write_func_typedefs
SectionFuncTypedefs ==
    <<"# =============================================================================",
      "# Function Pointer Types",
      "# =============================================================================",
      "">>

\* BindingGenerator._write_library_loader
LibraryLoaderLines ==
    <<"# =============================================================================",
      "# Library Loader",
      "# =============================================================================",
      "",
      "_sokol_lib = None",
      "",
      "def load_sokol_dll(dll_path: str = 'sokol-dll.dll') -> Any:",
      "    \"\"\"",
      "    Load the Sokol DLL and set up function prototypes.",
      "    ",
      "    Args:",
      "        dll_path: Path to the Sokol DLL file",
      "    ",
      "    Returns:",
      "        The loaded library object with all functions bound",
      "    \"\"\"",
      "    global _sokol_lib",
      "    ",
      "    path = Path(dll_path)",
      "    if not path.exists():",
      "        # Try common locations",
      "        for try_path in [Path('.') / dll_path, Path(__file__).parent / dll_path]:",
      "            if try_path.exists():",
      "                path = try_path",
      "                break",
      "    ",
      "    if sys.platform == 'win32':",
      "        lib = ctypes.CDLL(str(path))",
      "    else:",
      "        lib = ctypes.CDLL(str(path))",
      "    ",
      "    _setup_function_prototypes(lib)",
      "    _sokol_lib = lib",
      "    return lib",
      "">>

\* the first lines of _write_function_bindings
BindingsHead ==
    <<"def _setup_function_prototypes(lib):",
      "    \"\"\"Set up ctypes function prototypes.\"\"\"",
      "    ">>

\* the helper functions of _write_footer
FooterHelpers ==
    <<"# =============================================================================",
      "# Helper Functions",
      "# =============================================================================",
      "",
      "def get_lib():",
      "    \"\"\"Get the loaded Sokol library.\"\"\"",
      "    if _sokol_lib is None:",
      "        raise RuntimeError('Sokol library not loaded. Call load_sokol_dll() first.')",
      "    return _sokol_lib",
      "",
      "",
      "def make_range(data: bytes) -> sg_range:",
      "    \"\"\"Create an sg_range from bytes data.\"\"\"",
      "    r = sg_range()",
      "    r.ptr = ctypes.cast(data, c_void_p)",
      "    r.size = len(data)",
      "    return r",
      "",
      "",
      "def make_buffer_from_array(arr, ctype=c_float):",
      "    \"\"\"Create a ctypes array from a Python list.\"\"\"",
      "    return (ctype * len(arr))(*arr)",
      "",
      "",
      "# Export all public names",
      "__all__ = [">>

\* the fixed names that close __all__ in _write_footer
FooterExports ==
    <<"    'load_sokol_dll',",
      "    'get_lib',",
      "    'make_range',",
      "    'make_buffer_from_array',",
      "]">>

RECURSIVE EnumConstantLines(_)
\* one binding line per (name, value) of an enum
EnumConstantLines(values) ==
    IF values = <<>> THEN <<>>
    ELSE <<Head(values).name \o " = " \o Str(Head(values).value)>>
           \o EnumConstantLines(Tail(values))

RECURSIVE EnumLines(_)
\* the loop over parser.enums of _write_enums
EnumLines(enums) ==
    IF enums = <<>> THEN <<>>
    ELSE <<"# " \o Head(enums).k>> \o EnumConstantLines(Head(enums).v) \o <<"">>
           \o EnumLines(Tail(enums))

\* BindingGenerator._write_enums
EnumsLines(p) ==
    IF p.enums = <<>> THEN <<>> ELSE SectionEnums \o EnumLines(p.enums)

\* forward declarations written for the first record only
ForwardDeclarationsLinesFirstOnly(p) ==
    IF p.structs = <<>> THEN <<>>
    ELSE SectionForward
           \o <<"class " \o p.structs[1].k \o "(Structure): pass">>
           \o <<"">>

\* BindingGenerator._write_forward_declarations: one placeholder class per key
\* of parser.structs
ForwardDeclarationsLines(p) ==
    IF p.structs = <<>> THEN <<>>
    ELSE SectionForward
           \o [i \in 1..Len(p.structs) |->
                 "class " \o p.structs[i].k \o "(Structure): pass"]
           \o <<"">>

\* generated_types after _write_forward_declarations
ForwardGeneratedTypes(p, gen) ==
    IF p.structs = <<>> THEN gen ELSE gen \cup KeySet(p.structs)

\* the converted types of a list of type strings
ConvertTypes(p, gen, types) == [i \in 1..Len(types) |-> ConvertType(p, gen, types[i])]

\* one constructor line of _write_func_typedefs
FuncTypedefLine(p, gen, entry) ==
    LET ret_ctype == ConvertType(p, gen, entry.v.ret)
        arg_ctypes == ConvertTypes(p, gen, entry.v.args)
    IN  IF arg_ctypes # <<>>
        THEN entry.k \o " = CFUNCTYPE(" \o ret_ctype \o ", " \o Join(", ", arg_ctypes) \o ")"
        ELSE entry.k \o " = CFUNCTYPE(" \o ret_ctype \o ")"

\* BindingGenerator._write_func_typedefs
FuncTypedefsLines(p, gen) ==
    IF p.func_typedefs = <<>> THEN <<>>
    ELSE SectionFuncTypedefs
           \o [i \in 1..Len(p.func_typedefs) |-> FuncTypedefLine(p, gen, p.func_typedefs[i])]
           \o <<"">>

\* an entry of a field list written without the array length
FieldLineNoLength(p, gen, field) ==
    "    (\"" \o field.name \o "\", " \o ConvertType(p, gen, field.type) \o "),"

\* one entry of a field list; a length that is None or 0 is not attached
FieldLine(p, gen, field) ==
    LET ctype == ConvertType(p, gen, field.type)
    IN  IF field.size # None /\ field.size[1] # 0
        THEN "    (\"" \o field.name \o "\", " \o ctype \o " * " \o Str(field.size[1]) \o "),"
        ELSE "    (\"" \o field.name \o "\", " \o ctype \o "),"

\* the field-list body of one record
StructLines(p, gen, entry) ==
    <<"# " \o entry.k, entry.k \o "._fields_ = [">>
      \o [i \in 1..Len(entry.v) |-> FieldLine(p, gen, entry.v[i])]
      \o <<"]", "">>

RECURSIVE StructBodies(_, _, _)
StructBodies(p, gen, structs) ==
    IF structs = <<>> THEN <<>>
    ELSE StructLines(p, gen, Head(structs)) \o StructBodies(p, gen, Tail(structs))

\* BindingGenerator._write_structs
StructsLines(p, gen) ==
    IF p.structs = <<>> THEN <<>>
    ELSE SectionStructs \o StructBodies(p, gen, p.structs)

\* the lines of one function written without the hasattr test
FunctionLinesUnguarded(p, gen, entry) ==
    LET func_name == entry.k
        ret_ctype == ConvertType(p, gen, entry.v.ret)
        arg_ctypes == [i \in 1..Len(entry.v.args) |->
                          ConvertType(p, gen, entry.v.args[i].type)]
    IN  <<"    # " \o func_name,
          "    lib." \o func_name \o ".restype = " \o ret_ctype,
          IF arg_ctypes # <<>>
          THEN "    lib." \o func_name \o ".argtypes = [" \o Join(", ", arg_ctypes) \o "]"
          ELSE "    lib." \o func_name \o ".argtypes = []",
          "    ">>

\* the lines of one function in _write_function_bindings
FunctionLines(p, gen, entry) ==
    LET func_name == entry.k
        ret_ctype == ConvertType(p, gen, entry.v.ret)
        arg_ctypes == [i \in 1..Len(entry.v.args) |->
                          ConvertType(p, gen, entry.v.args[i].type)]
    IN  <<"    # " \o func_name,
          "    if hasattr(lib, '" \o func_name \o "'):",
          "        lib." \o func_name \o ".restype = " \o ret_ctype,
          IF arg_ctypes # <<>>
          THEN "        lib." \o func_name \o ".argtypes = [" \o Join(", ", arg_ctypes) \o "]"
          ELSE "        lib." \o func_name \o ".argtypes = []",
          "    ">>

RECURSIVE FunctionsLines(_, _, _)
FunctionsLines(p, gen, functions) ==
    IF functions = <<>> THEN <<>>
    ELSE FunctionLines(p, gen, Head(functions)) \o FunctionsLines(p, gen, Tail(functions))

\* BindingGenerator._write_function_bindings
FunctionBindingsLines(p, gen) ==
    BindingsHead \o FunctionsLines(p, gen, p.functions) \o <<"">>

\* a line of the __all__ list
ExportLine(name) == "    '" \o name \o "',"

RECURSIVE EnumExports(_)
\* the enum constants of __all__, enum by enum
EnumExports(enums) ==
    IF enums = <<>> THEN <<>>
    ELSE [i \in 1..Len(Head(enums).v) |-> ExportLine(Head(enums).v[i].name)]
           \o EnumExports(Tail(enums))

\* _write_footer without the loop over the record names
FooterLinesNoStructs(p) ==
    FooterHelpers
      \o EnumExports(p.enums)
      \o [i \in 1..Len(p.func_typedefs) |-> ExportLine(p.func_typedefs[i].k)]
      \o FooterExports

\* BindingGenerator._write_footer
FooterLines(p) ==
    FooterHelpers
      \o EnumExports(p.enums)
      \o [i \in 1..Len(p.structs) |-> ExportLine(p.structs[i].k)]
      \o [i \in 1..Len(p.func_typedefs) |-> ExportLine(p.func_typedefs[i].k)]
      \o FooterExports

\* ------------------------------------------------------------------------
\* The declarations a translation unit is drawn from
\* ------------------------------------------------------------------------

HeaderFile == "sokol/sokol_gfx.h"

TVoid == TPrim("VOID", "void")
TInt == TPrim("INT", "int")
TFloat == TPrim("FLOAT", "float")
TUInt32 == TPrim("TYPEDEF", "uint32_t")
TStruct(name) == TPrim("ELABORATED", "struct " \o name)
TConstStruct(name) == TPrim("ELABORATED", "const struct " \o name)
TUChar == TPrim("UCHAR", "unsigned char")
TTypedef(name) == TPrim("TYPEDEF", name)
TypeRef(name) ==
    MkCursor("TYPE_REF", name, HeaderFile, FALSE, 0, NoType, NoType, NoType, <<>>)
TPtrTo(t) == TPtr(t, t.spelling \o " *")

EnumConstant(name, value) ==
    MkCursor("ENUM_CONSTANT_DECL", name, HeaderFile, TRUE, value, NoType, NoType, NoType, <<>>)
EnumDecl(name, constants) ==
    MkCursor("ENUM_DECL", name, HeaderFile, TRUE, 0, NoType, NoType, NoType, constants)
FieldDecl(name, type) ==
    MkCursor("FIELD_DECL", name, HeaderFile, TRUE, 0, type, NoType, NoType, <<>>)
StructDef(name, fields) ==
    MkCursor("STRUCT_DECL", name, HeaderFile, TRUE, 0, NoType, NoType, NoType, fields)
StructFwd(name) ==
    MkCursor("STRUCT_DECL", name, HeaderFile, FALSE, 0, NoType, NoType, NoType, <<>>)
TypedefDecl(name, underlying, children) ==
    MkCursor("TYPEDEF_DECL", name, HeaderFile, TRUE, 0, NoType, NoType, underlying, children)
ParmDecl(name, type) ==
    MkCursor("PARM_DECL", name, HeaderFile, TRUE, 0, type, NoType, NoType, <<>>)
FunctionDecl(name, result, children) ==
    MkCursor("FUNCTION_DECL", name, HeaderFile, TRUE, 0, NoType, result, NoType, children)
CompoundStmt(children) ==
    MkCursor("COMPOUND_STMT", "", HeaderFile, TRUE, 0, NoType, NoType, NoType, children)

\* enum sg_backend { SG_BACKEND_GLCORE = 0, SG_BACKEND_D3D11 = 2 };
DeclEnumBackend ==
    EnumDecl("sg_backend",
             <<EnumConstant("SG_BACKEND_GLCORE", 0), EnumConstant("SG_BACKEND_D3D11", 2)>>)

\* typedef enum { SAPP_KEYCODE_A = 65, SAPP_KEYCODE_INVALID = -1 } sapp_keycode;
DeclTypedefEnum ==
    TypedefDecl("sapp_keycode", TPrim("ELABORATED", "sapp_keycode"),
                <<EnumDecl("", <<EnumConstant("SAPP_KEYCODE_A", 65),
                                 EnumConstant("SAPP_KEYCODE_INVALID", -1)>>)>>)

\* struct sg_desc { float a; float b[4]; struct sg_desc *next[2][3]; void (*cb)(int); };
DeclStructDesc ==
    StructDef("sg_desc",
        <<FieldDecl("a", TFloat),
          FieldDecl("b", TArr(TFloat, 4, "float[4]")),
          FieldDecl("next",
                    TArr(TArr(TPtrTo(TStruct("sg_desc")), 3, "struct sg_desc *[3]"),
                         2, "struct sg_desc *[2][3]")),
          FieldDecl("cb", TPtr(TFn(TVoid, <<TInt>>, "void (int)"), "void (*)(int)"))>>)

\* struct sapp_desc { int (*cb)(void); struct sg_desc gfx; sg_pixel fmt;
\*                    unsigned char tail[0]; struct sapp_icon { int w; } icon; };
DeclStructApp ==
    StructDef("sapp_desc",
        <<FieldDecl("cb", TPtr(TFn(TInt, <<>>, "int (void)"), "int (*)(void)")),
          FieldDecl("gfx", TStruct("sg_desc")),
          FieldDecl("fmt", TTypedef("sg_pixel")),
          FieldDecl("tail", TArr(TUChar, 0, "unsigned char[0]")),
          StructDef("sapp_icon", <<FieldDecl("w", TInt)>>),
          FieldDecl("icon", TStruct("sapp_icon"))>>)

\* typedef struct { void (*func)(void); uint32_t id; } sapp_char_event;
DeclTypedefStruct ==
    TypedefDecl("sapp_char_event", TPrim("ELABORATED", "sapp_char_event"),
        <<StructDef("",
            <<FieldDecl("func", TPtr(TFn(TVoid, <<>>, "void (void)"), "void (*)(void)")),
              FieldDecl("id", TUInt32)>>)>>)

\* struct sg_pending;
DeclStructFwd == StructFwd("sg_pending")

\* typedef uint32_t sg_backend;
DeclTypedefScalar == TypedefDecl("sg_backend", TUInt32, <<>>)

\* static void _sg_helper(void) {
\*     typedef float sg_backend;
\*     enum sg_backend { SG_BACKEND_D3D11 = 7 };
\*     enum sg_local { SG_BACKEND_GLCORE = -1 };
\*     struct sg_desc { int x; };
\*     void sg_setup(const struct sg_desc *);
\* }
DeclHelper ==
    FunctionDecl("_sg_helper", TVoid,
        <<CompoundStmt(
            <<TypedefDecl("sg_backend", TFloat, <<>>),
              EnumDecl("sg_backend", <<EnumConstant("SG_BACKEND_D3D11", 7)>>),
              EnumDecl("sg_local", <<EnumConstant("SG_BACKEND_GLCORE", -1)>>),
              StructDef("sg_desc", <<FieldDecl("x", TInt)>>),
              FunctionDecl("sg_setup", TVoid,
                           <<ParmDecl("", TPtrTo(TConstStruct("sg_desc")))>>)>>)>>)

\* typedef void (*sapp_event_cb)(const struct sg_desc *);
DeclFuncTypedef ==
    TypedefDecl("sapp_event_cb",
        TPtr(TFn(TVoid, <<TPtrTo(TConstStruct("sg_desc"))>>, "void (const struct sg_desc *)"),
             "void (*)(const struct sg_desc *)"),
        <<>>)

\* void sg_setup(const struct sg_desc *desc);
DeclFuncSetup ==
    FunctionDecl("sg_setup", TVoid, <<ParmDecl("desc", TPtrTo(TConstStruct("sg_desc")))>>)

\* int sapp_width(void);
DeclFuncWidth == FunctionDecl("sapp_width", TInt, <<>>)

\* typedef enum sg_pixel sg_pixel;   (enum sg_pixel is declared in a header
\* that is not a library header, so it is never captured)
DeclTypedefForeignEnum ==
    TypedefDecl("sg_pixel", TPrim("ELABORATED", "enum sg_pixel"), <<TypeRef("enum sg_pixel")>>)

\* typedef struct sg_inner { int x; } sg_outer;
DeclTypedefNamedStruct ==
    TypedefDecl("sg_outer", TPrim("ELABORATED", "struct sg_inner"),
        <<StructDef("sg_inner", <<FieldDecl("x", TInt)>>)>>)

\* the top-level declarations a header set is made of
Universe ==
    <<DeclEnumBackend, DeclTypedefEnum, DeclStructDesc, DeclStructApp, DeclTypedefStruct,
      DeclStructFwd, DeclTypedefScalar, DeclHelper, DeclFuncTypedef, DeclFuncSetup,
      DeclFuncWidth, DeclTypedefForeignEnum, DeclTypedefNamedStruct>>

\* ------------------------------------------------------------------------
\* Bounds
\* ------------------------------------------------------------------------

\* the number of top-level declarations of a translation unit
MaxDecls == 2

\* the number of load_sokol_dll calls
MaxLoads == 1

\* ------------------------------------------------------------------------
\* The emitted module at run time: load_sokol_dll and _setup_function_prototypes
\* ------------------------------------------------------------------------

RECURSIVE FindFrom(_, _, _)
\* the first position >= i at which p occurs in s, 0 if none
FindFrom(s, p, i) ==
    IF i + Len(p) - 1 > Len(s) THEN 0
    ELSE IF SubSeq(s, i, i + Len(p) - 1) = p THEN i
    ELSE FindFrom(s, p, i + 1)

\* s.find(p) + 1: the first position of p in s, 0 if none
Find(s, p) == FindFrom(s, p, 1)

\* a library handle: the symbols the library exports and the prototypes bound
\* on its functions
MkHandle(exports) == [exports |-> exports, restype |-> <<>>, argtypes |-> <<>>]

\* the statement "lib.<name>.<attr> = <expr>" run on handle h: getting
\* lib.<name> raises AttributeError when the library has no such symbol
ExecBind(h, stmt) ==
    LET rest == SubSeq(stmt, 5, Len(stmt))
        name == SubSeq(rest, 1, Find(rest, ".") - 1)
        after == SubSeq(rest, Find(rest, ".") + 1, Len(rest))
        attr == SubSeq(after, 1, Find(after, " = ") - 1)
        expr == SubSeq(after, Find(after, " = ") + 3, Len(after))
    IN  IF name \notin h.lib.exports THEN [h EXCEPT !.raised = TRUE]
        ELSE IF attr = "restype"
             THEN [h EXCEPT !.lib.restype = Put(h.lib.restype, name, expr)]
             ELSE [h EXCEPT !.lib.argtypes = Put(h.lib.argtypes, name, expr)]

RECURSIVE RunSetup(_, _, _)
\* the body of the emitted _setup_function_prototypes, run line by line from
\* line i: h holds the handle, whether the enclosing "if" was taken and
\* whether a statement raised
RunSetup(lines, i, h) ==
    IF i > Len(lines) THEN h
    ELSE LET line == lines[i]
         IN  IF h.raised THEN h
             ELSE IF line # "" /\ ~StartsWith(line, "    ") THEN h
             ELSE IF StartsWith(line, "    if hasattr(lib, '") /\ EndsWith(line, "'):")
                  THEN RunSetup(lines, i + 1,
                         [h EXCEPT !.taken =
                             SubSeq(line, 22, Len(line) - 3) \in h.lib.exports])
             ELSE IF StartsWith(line, "        lib.")
                  THEN RunSetup(lines, i + 1,
                         IF h.taken THEN ExecBind(h, SubSeq(line, 9, Len(line))) ELSE h)
             ELSE IF StartsWith(line, "    lib.")
                  THEN RunSetup(lines, i + 1, ExecBind(h, SubSeq(line, 5, Len(line))))
             ELSE RunSetup(lines, i + 1, h)

\* the position of a line in the module text, 0 if it is not there
LineIndex(lines, line) ==
    IF \E i \in 1..Len(lines) : lines[i] = line
    THEN CHOOSE i \in 1..Len(lines) :
            lines[i] = line /\ \A j \in 1..(i - 1) : lines[j] # line
    ELSE 0

\* ------------------------------------------------------------------------
\* Importing the emitted module
\* ------------------------------------------------------------------------

\* an entry line '    ("name", type),' of a field list read back
EntryOf(line) ==
    LET sep == Find(line, "\", ")
    IN  [name |-> SubSeq(line, 7, sep - 1), type |-> SubSeq(line, sep + 3, Len(line) - 2)]

\* the characters that end a name in the emitted statements ("" is the end
\* of the line)
Delimiters ==
    {"", " ", "(", ")", "[", "]", ",", ":", "=", "*", ".", "-", ">", "#", "'", "\""}

IsDelimiter(c) == c \in Delimiters

RECURSIVE TokenEnd(_, _)
\* the position after the run of name characters that starts at i
TokenEnd(s, i) == IF IsDelimiter(ChAt(s, i)) THEN i ELSE TokenEnd(s, i + 1)

RECURSIVE NamesFrom(_, _)
\* the names an expression refers to from position i on: string literals
\* and numbers are no names
NamesFrom(s, i) ==
    IF i > Len(s) THEN {}
    ELSE IF ChAt(s, i) = "'"
         THEN LET close == FindFrom(s, "'", i + 1)
              IN  IF close = 0 THEN {} ELSE NamesFrom(s, close + 1)
    ELSE IF IsDelimiter(ChAt(s, i)) THEN NamesFrom(s, i + 1)
    ELSE LET e == TokenEnd(s, i)
         IN  (IF IsDigit(ChAt(s, i)) THEN {} ELSE {SubSeq(s, i, e - 1)})
                 \cup NamesFrom(s, e)

Names(s) == NamesFrom(s, 1)

\* the built-in names the emitted top-level statements use
Builtins == {"None", "bytes", "str"}

\* the names "from ctypes import (...)" binds
CtypesImports ==
    {"Structure", "Union", "POINTER", "CFUNCTYPE",
     "c_bool", "c_char", "c_byte", "c_ubyte", "c_short", "c_ushort",
     "c_int", "c_uint", "c_long", "c_ulong", "c_longlong", "c_ulonglong",
     "c_float", "c_double", "c_size_t", "c_ssize_t", "c_void_p", "c_char_p",
     "c_int8", "c_uint8", "c_int16", "c_uint16", "c_int32", "c_uint32",
     "c_int64", "c_uint64", "c_wchar", "c_wchar_p",
     "byref", "cast", "sizeof", "addressof"}

\* what executing a statement does: the names it binds, the names it looks
\* up, the names it looks up when annotations are evaluated at definition
\* time, the types it makes final and the records whose "_fields_" it sets
Does(binds, always, annotated, holds, assigns) ==
    [binds |-> binds, always |-> always, annotated |-> annotated,
     holds |-> holds, assigns |-> assigns]

Nothing == Does({}, {}, {}, {}, {})

RECURSIVE ParamNames(_, _)
\* the parameter names of a parameter list "a: t = d, b=d, c" from position i
ParamNames(params, i) ==
    IF i > Len(params) THEN {}
    ELSE LET next == FindFrom(params, ", ", i)
         IN  {SubSeq(params, i, TokenEnd(params, i) - 1)}
                 \cup (IF next = 0 THEN {} ELSE ParamNames(params, next + 2))

RECURSIVE ParamDefaults(_, _)
\* the names the default values of a parameter list refer to
ParamDefaults(params, i) ==
    IF i > Len(params) THEN {}
    ELSE LET next == FindFrom(params, ", ", i)
             param == SubSeq(params, i, IF next = 0 THEN Len(params) ELSE next - 1)
             eq == Find(param, "=")
         IN  (IF eq = 0 THEN {} ELSE Names(SubSeq(param, eq + 1, Len(param))))
                 \cup (IF next = 0 THEN {} ELSE ParamDefaults(params, next + 2))

\* "def name(params) -> annotation:" binds name and looks up the names of
\* the default values; an interpreter that evaluates annotations at
\* definition time looks up the names of the annotations as well
DefStatement(line) ==
    LET open == TokenEnd(line, 5)
        close == FindFrom(line, ")", open)
        params == SubSeq(line, open + 1, close - 1)
    IN  Does({SubSeq(line, 5, open - 1)},
             ParamDefaults(params, 1),
             (Names(params) \ ParamNames(params, 1))
                \cup Names(SubSeq(line, close + 1, Len(line))),
             {}, {})

\* "name = expression" binds name and looks up the names of the expression;
\* "record._fields_ = [" looks up record and sets its fields
Assignment(line) ==
    LET e == TokenEnd(line, 1)
    IN  IF e > 1 /\ StartsWithAt(line, " = ", e)
        THEN Does({SubSeq(line, 1, e - 1)}, Names(SubSeq(line, e + 3, Len(line))),
                  {}, {}, {})
        ELSE IF e > 1 /\ SubSeq(line, e, Len(line)) = "._fields_ = ["
        THEN Does({}, {SubSeq(line, 1, e - 1)}, {}, {}, {SubSeq(line, 1, e - 1)})
        ELSE Nothing

\* what executing one line of the module at import does: an entry of a field
\* list looks up the names of its type and, when the type is a record held by
\* value, ctypes makes that record final; "class name(bases): pass" binds
\* name and looks up the bases; an import binds names
Statement(line) ==
    IF line = "" THEN Nothing
    ELSE IF ChAt(line, 1) = " "
         THEN IF StartsWith(line, "    (\"")
              THEN LET type == EntryOf(line).type
                   IN  Does({}, Names(type), {}, {type}, {})
              ELSE Nothing
    ELSE IF StartsWith(line, "class ")
         THEN LET open == TokenEnd(line, 7)
              IN  Does({SubSeq(line, 7, open - 1)},
                       Names(SubSeq(line, open, FindFrom(line, ")", open))), {}, {}, {})
    ELSE IF StartsWith(line, "def ") THEN DefStatement(line)
    ELSE IF line = "from ctypes import (" THEN Does(CtypesImports, {}, {}, {}, {})
    ELSE IF StartsWith(line, "import ")
         THEN Does(Names(SubSeq(line, 8, Len(line))), {}, {}, {}, {})
    ELSE IF StartsWith(line, "from ")
         THEN IF Contains(line, " import ")
              THEN Does(Names(SubSeq(line, Find(line, " import ") + 8, Len(line))),
                        {}, {}, {}, {})
              ELSE Nothing
    ELSE Assignment(line)

RECURSIVE Execute(_, _, _, _, _)
\* the statements from the k-th on, executed with the names bound and the
\* types made final so far: NameError at the first lookup of an unbound name,
\* AttributeError at the first assignment to the "_fields_" of a final record
Execute(statements, k, bound, final, annotations) ==
    IF k > Len(statements) THEN "imported"
    ELSE LET st == statements[k]
         IN  IF ~(st.always \subseteq bound)
                  \/ (annotations /\ ~(st.annotated \subseteq bound))
             THEN "NameError"
             ELSE IF st.assigns \cap final # {} THEN "AttributeError"
             ELSE Execute(statements, k + 1, bound \cup st.binds,
                          final \cup st.holds, annotations)

\* "import sokol_bindings": the outcome on an interpreter that evaluates
\* annotations at definition time (eager) and on one that does not (lazy)
ImportModule(lines) ==
    CHOOSE outcome \in
        {[eager |-> Execute(statements, 1, Builtins, {}, TRUE),
          lazy |-> Execute(statements, 1, Builtins, {}, FALSE)] :
            statements \in {SelectSeq(<<>> \o [i \in 1..Len(lines) |-> Statement(lines[i])],
                                      LAMBDA st : st # Nothing)}} : TRUE

\* the emitted load_sokol_dll called on a library that opens (or not) and
\* exports the given symbols: the outcome and the handle
CallLoadSokolDll(lines, exports, opens) ==
    IF ~opens THEN [status |-> "raised", error |-> "OSError", lib |-> MkHandle({})]
    ELSE LET r == RunSetup(lines,
                           LineIndex(lines, "def _setup_function_prototypes(lib):") + 1,
                           [lib |-> MkHandle(exports), taken |-> FALSE, raised |-> FALSE])
         IN  IF r.raised
             THEN [status |-> "raised", error |-> "AttributeError", lib |-> MkHandle({})]
             ELSE [status |-> "returned", error |-> "", lib |-> r.lib]

\* the symbols a native library build may export
LibrarySymbols == {"sg_setup", "sapp_width"}

\* ------------------------------------------------------------------------
\* The declaration each captured record comes from (history)
\* ------------------------------------------------------------------------

RECURSIVE Flatten(_)
RECURSIVE FlattenAll(_)
\* a cursor and its descendants in the order _visit_cursor reaches them
Flatten(cursor) == <<cursor>> \o FlattenAll(cursor.children)

FlattenAll(children) ==
    IF children = <<>> THEN <<>>
    ELSE Flatten(Head(children)) \o FlattenAll(Tail(children))

\* the cursors of kind k among children
OfKind(children, k) == SelectSeq(children, LAMBDA c : c.kind = k)

\* whether cursor declares a record named n with a field list: a struct
\* definition, or a typedef of an anonymous struct
DeclaresRecord(cursor, n) ==
    \/ cursor.kind = "STRUCT_DECL" /\ cursor.spelling = n /\ cursor.is_def
    \/ /\ cursor.kind = "TYPEDEF_DECL" /\ cursor.spelling = n
       /\ OfKind(cursor.children, "STRUCT_DECL") # <<>>
       /\ OfKind(cursor.children, "STRUCT_DECL")[1].spelling = ""

\* the fields of a record declaration as the header declares them: name,
\* type, constant array length if any, and whether the type is a pointer to
\* function
DeclaredFields(cursor) ==
    LET decl == IF cursor.kind = "TYPEDEF_DECL"
                THEN OfKind(cursor.children, "STRUCT_DECL")[1] ELSE cursor
        fields == OfKind(decl.children, "FIELD_DECL")
    IN  [i \in 1..Len(fields) |->
            [name |-> fields[i].spelling,
             type |-> fields[i].type,
             size |-> IF fields[i].type.kind = "CONSTANTARRAY"
                      THEN Some(fields[i].type.size) ELSE None,
             func_ptr |-> /\ fields[i].type.kind = "POINTER"
                          /\ fields[i].type.inner[1].kind = "FUNCTIONPROTO"]]

RECURSIVE RecordOrigins(_, _, _)
\* origin extended by the records that visiting cursor added to the table:
\* each comes from the first declaration of its name under cursor
RecordOrigins(origin_, names, cursor) ==
    IF names = <<>> THEN origin_
    ELSE LET n == Head(names)
             ds == SelectSeq(Flatten(cursor), LAMBDA c : DeclaresRecord(c, n))
         IN  RecordOrigins(IF Has(origin_, n) THEN origin_
                           ELSE Put(origin_, n, DeclaredFields(ds[1])),
                           Tail(names), cursor)

\* ------------------------------------------------------------------------
\* The pipeline
\* ------------------------------------------------------------------------

VARIABLES
    parser,           \* the SokolParser of the current run
    output_lines,     \* BindingGenerator.output_lines
    generated_types,  \* BindingGenerator.generated_types
    pc,               \* where the run is: "parse", a stage of generate(), "done"
    decls,            \* the top-level declarations of the translation unit
    pos,              \* how many of them the current run has visited
    run,              \* 1 for the first run over decls, 2 for the second
    first,            \* what the first run produced, once a second run started
    imported,         \* "" or the outcome of importing the emitted module
    sokol_lib,        \* _sokol_lib of the emitted module
    load_result,      \* the outcome of the last load_sokol_dll call
    loads,            \* the number of load_sokol_dll calls
    origin,           \* history: the declared fields of each captured record
    tmp_file,         \* whether <sokol_dir>/_combined_sokol.c exists
    out_file,         \* the content of the output file, None if there is none
    main_result,      \* "running", "return 0", "return 1" or "raise"
    failure,          \* history: what failed in this run, "" if nothing
    diag              \* whether tu.diagnostics holds an Error or Fatal entry

\* the state of main and of the files it touches
mainVars == <<tmp_file, out_file, main_result, failure, diag>>

vars == <<parser, output_lines, generated_types, pc, decls, pos, run, first,
          imported, sokol_lib, load_result, loads, origin, tmp_file, out_file, main_result,
          failure, diag>>

\* generate() with the record bodies written before the function-pointer
\* types
GenerateOrderStructsFirst ==
    <<"header", "imports", "type_helpers", "enums", "forward", "structs",
      "func_typedefs", "loader", "bindings", "footer", "done">>

\* BindingGenerator.generate: the stages in the order they are called
GenerateOrder ==
    <<"header", "imports", "type_helpers", "enums", "forward", "func_typedefs",
      "structs", "loader", "bindings", "footer", "done">>

\* the stage after stage s
After(s) ==
    GenerateOrder[(CHOOSE i \in 1..Len(GenerateOrder) : GenerateOrder[i] = s) + 1]

Init ==
    /\ parser = ParserInit
    /\ output_lines = <<>>
    /\ generated_types = {}
    /\ pc = "parse"
    /\ decls = <<>>
    /\ pos = 0
    /\ run = 1
    /\ first = None
    /\ imported = ""
    /\ sokol_lib = None
    /\ load_result = [status |-> "none", error |-> "", lib |-> MkHandle({})]
    /\ loads = 0
    /\ origin = <<>>
    /\ tmp_file = TRUE
    /\ out_file = None
    /\ main_result = "running"
    /\ failure = ""
    /\ diag = FALSE

\* parse_headers visits the next top-level cursor of the translation unit; the
\* second run visits the declarations of the first
Visit ==
    /\ pc = "parse"
    /\ \E i \in 1..Len(Universe) :
        /\ IF run = 1
           THEN Len(decls) < MaxDecls /\ decls' = Append(decls, i)
           ELSE pos < Len(decls) /\ i = decls[pos + 1] /\ decls' = decls
        /\ parser' = VisitCursor(parser, Universe[i])
        /\ origin' = RecordOrigins(origin, Keys(parser'.structs), Universe[i])
    /\ pos' = pos + 1
    /\ UNCHANGED <<output_lines, generated_types, pc, run, first, imported, sokol_lib,
                   load_result, loads>>
    /\ UNCHANGED mainVars

\* a BindingGenerator whose output_lines and generated_types are shared by all
\* instances (class attributes) instead of created per instance
GeneratorInitShared == [output_lines |-> output_lines, generated_types |-> generated_types]

\* BindingGenerator.__init__
GeneratorInit == [output_lines |-> <<>>, generated_types |-> {}]

\* the tree is visited; parse_headers deletes the combined source file and
\* returns True, and main constructs the BindingGenerator
NewGenerator ==
    /\ pc = "parse"
    /\ pos = Len(decls)
    /\ output_lines' = GeneratorInit.output_lines
    /\ generated_types' = GeneratorInit.generated_types
    /\ pc' = GenerateOrder[1]
    /\ tmp_file' = FALSE
    /\ UNCHANGED <<parser, decls, pos, run, first, imported, sokol_lib, load_result, loads, origin,
                   out_file, main_result, failure, diag>>

\* whether writing lines raised: a _convert_type call of the stage exceeded the
\* recursion limit
Raises(lines) == \E i \in 1..Len(lines) : Find(lines[i], RecursionError) > 0

\* a stage that empties the record table once the records are written
WriteConsuming(stage, lines) ==
    /\ pc = stage
    /\ IF Raises(lines)
       THEN /\ output_lines' = <<>>
            /\ pc' = "crashed"
            /\ main_result' = "raise"
            /\ failure' = "generate"
       ELSE /\ output_lines' = output_lines \o lines
            /\ pc' = After(stage)
            /\ UNCHANGED <<main_result, failure>>
    /\ parser' = IF stage = "structs" THEN [parser EXCEPT !.structs = <<>>] ELSE parser
    /\ UNCHANGED <<generated_types, decls, pos, run, first, imported, sokol_lib,
                   load_result, loads, origin, tmp_file, out_file, diag>>

\* a stage of generate() that appends lines and leaves generated_types alone;
\* when a conversion raises, the exception leaves generate() and the
\* generator, a local of main, is dropped
Write(stage, lines) ==
    /\ pc = stage
    /\ IF Raises(lines)
       THEN /\ output_lines' = <<>>
            /\ pc' = "crashed"
            /\ main_result' = "raise"
            /\ failure' = "generate"
       ELSE /\ output_lines' = output_lines \o lines
            /\ pc' = After(stage)
            /\ UNCHANGED <<main_result, failure>>
    /\ UNCHANGED <<parser, generated_types, decls, pos, run, first, imported, sokol_lib,
                   load_result, loads, origin, tmp_file, out_file, diag>>

WriteHeader == Write("header", HeaderLines)
WriteImports == Write("imports", ImportsLines)
WriteTypeHelpers == Write("type_helpers", TypeHelpersLines)
WriteEnums == Write("enums", EnumsLines(parser))

WriteForwardDeclarations ==
    /\ pc = "forward"
    /\ output_lines' = output_lines \o ForwardDeclarationsLines(parser)
    /\ generated_types' = ForwardGeneratedTypes(parser, generated_types)
    /\ pc' = After("forward")
    /\ UNCHANGED <<parser, decls, pos, run, first, imported, sokol_lib, load_result, loads, origin>>
    /\ UNCHANGED mainVars

WriteFuncTypedefs == Write("func_typedefs", FuncTypedefsLines(parser, generated_types))
WriteStructs == Write("structs", StructsLines(parser, generated_types))
WriteLibraryLoader == Write("loader", LibraryLoaderLines)
WriteFunctionBindings == Write("bindings", FunctionBindingsLines(parser, generated_types))
WriteFooter == Write("footer", FooterLines(parser))

\* the pipeline is run a second time on the same declarations, with a new
\* SokolParser
Rerun ==
    /\ pc = "done"
    /\ run = 1
    /\ imported = ""
    /\ loads = 0
    /\ first' = Some([parser |-> parser, output |-> output_lines])
    /\ parser' = ParserInit
    /\ pos' = 0
    /\ run' = 2
    /\ pc' = "parse"
    /\ origin' = <<>>
    /\ tmp_file' = TRUE
    /\ UNCHANGED <<output_lines, generated_types, decls, imported, sokol_lib, load_result, loads,
                   out_file, main_result, failure, diag>>

\* "import sokol_bindings" once the first run has written the module, on an
\* interpreter that evaluates annotations at definition time or on one that
\* does not
Import ==
    /\ pc = "done"
    /\ run = 1
    /\ imported = ""
    /\ LET outcome == ImportModule(output_lines)
       IN  imported' \in {outcome.eager, outcome.lazy}
    /\ UNCHANGED <<parser, output_lines, generated_types, pc, decls, pos, run, first,
                   sokol_lib, load_result, loads, origin>>
    /\ UNCHANGED mainVars

\* get_lib() of the imported module with _sokol_lib = lib
GetLib(lib) ==
    IF lib = None
    THEN [status |-> "raised", error |-> "RuntimeError", lib |-> MkHandle({})]
    ELSE [status |-> "returned", error |-> "", lib |-> lib[1]]

\* load_sokol_dll with "_sokol_lib = lib" not skipped when the call raises
LoadSokolDllAlwaysStores ==
    /\ pc = "done"
    /\ imported = "imported"
    /\ loads < MaxLoads
    /\ \E exports \in SUBSET LibrarySymbols, opens \in BOOLEAN :
        LET r == CallLoadSokolDll(output_lines, exports, opens)
        IN  /\ load_result' = r
            /\ sokol_lib' = Some(r.lib)
    /\ loads' = loads + 1
    /\ UNCHANGED <<parser, output_lines, generated_types, pc, decls, pos, run, first,
                   imported, origin>>
    /\ UNCHANGED mainVars

\* load_sokol_dll of the imported module is called on a library: "_sokol_lib =
\* lib" is reached only when neither CDLL nor the setup has raised
LoadSokolDll ==
    /\ pc = "done"
    /\ imported = "imported"
    /\ loads < MaxLoads
    /\ \E exports \in SUBSET LibrarySymbols, opens \in BOOLEAN :
        LET r == CallLoadSokolDll(output_lines, exports, opens)
        IN  /\ load_result' = r
            /\ sokol_lib' = IF r.status = "returned" THEN Some(r.lib) ELSE sokol_lib
    /\ loads' = loads + 1
    /\ UNCHANGED <<parser, output_lines, generated_types, pc, decls, pos, run, first,
                   imported, origin>>
    /\ UNCHANGED mainVars

Next ==
    \/ Visit
    \/ NewGenerator
    \/ WriteHeader
    \/ WriteImports
    \/ WriteTypeHelpers
    \/ WriteEnums
    \/ WriteForwardDeclarations
    \/ WriteFuncTypedefs
    \/ WriteStructs
    \/ WriteLibraryLoader
    \/ WriteFunctionBindings
    \/ WriteFooter
    \/ Rerun
    \/ Import
    \/ LoadSokolDll

Spec == Init /\ [][Next]_vars

\* ------------------------------------------------------------------------
\* main: one run of the generator as a program
\* ------------------------------------------------------------------------

\* the headers main looks for
SOKOL_HEADERS == {"sokol_log.h", "sokol_gfx.h", "sokol_app.h", "sokol_glue.h"}

\* what the output file holds when it exists before the run
OldOutput == <<"# previous output">>

InitMain ==
    /\ parser = ParserInit
    /\ output_lines = <<>>
    /\ generated_types = {}
    /\ pc = "main"
    /\ decls = <<>>
    /\ pos = 0
    /\ run = 1
    /\ first = None
    /\ imported = ""
    /\ sokol_lib = None
    /\ load_result = [status |-> "none", error |-> "", lib |-> MkHandle({})]
    /\ loads = 0
    /\ origin = <<>>
    /\ tmp_file = FALSE
    /\ out_file \in {None, Some(OldOutput)}
    /\ main_result = "running"
    /\ failure = ""
    /\ diag = FALSE

\* main ends at pc "exit" with result r because of what
MainEnds(r, what) ==
    /\ main_result' = r
    /\ failure' = what
    /\ pc' = "exit"

\* main from its entry until index.parse is back: the directory test, the
\* test for at least one header, SokolParser(), and parse_headers up to the
\* try block. A header the combined source includes and the directory lacks
\* is a Fatal diagnostic; the headers present may hold errors of their own
MainParse ==
    /\ pc = "main"
    /\ \E dir_exists \in BOOLEAN, found \in SUBSET SOKOL_HEADERS,
          parse_raises \in BOOLEAN, errors \in BOOLEAN :
          IF ~dir_exists
          THEN MainEnds("return 1", "directory") /\ UNCHANGED <<tmp_file, diag>>
          ELSE IF found = {}
          THEN MainEnds("return 1", "headers") /\ UNCHANGED <<tmp_file, diag>>
          ELSE IF parse_raises
          THEN MainEnds("return 1", "index.parse") /\ tmp_file' = FALSE /\ UNCHANGED diag
          ELSE /\ pc' = "parse"
               /\ tmp_file' = TRUE
               /\ diag' = (found # SOKOL_HEADERS \/ errors)
               /\ UNCHANGED <<main_result, failure>>
    /\ UNCHANGED <<parser, output_lines, generated_types, decls, pos, run, first,
                   imported, sokol_lib, load_result, loads, origin, out_file>>

\* reading tu.diagnostics or visiting the tree raises (the binding does not
\* know a cursor kind, the tree is nested deeper than the recursion limit):
\* nothing catches it, so it leaves parse_headers and main
VisitRaises ==
    /\ pc = "parse"
    /\ MainEnds("raise", "visit")
    /\ UNCHANGED <<parser, output_lines, generated_types, decls, pos, run, first,
                   imported, sokol_lib, load_result, loads, origin, tmp_file, out_file, diag>>

\* args.output.write_text(output) and return 0; a write that raises leaves
\* the file as it was or truncated
WriteOutput ==
    /\ pc = "done"
    /\ \/ /\ out_file' = Some(output_lines)
          /\ MainEnds("return 0", "")
       \/ /\ out_file' \in {out_file, Some(<<>>)}
          /\ MainEnds("raise", "write_text")
    /\ UNCHANGED <<parser, output_lines, generated_types, decls, pos, run, first,
                   imported, sokol_lib, load_result, loads, origin, tmp_file, diag>>

\* sys.exit(main()): the status of the process; an exception that leaves
\* main ends the interpreter with status 1
ExitStatus ==
    CASE main_result = "return 0" -> Some(0)
      [] main_result = "return 1" -> Some(1)
      [] main_result = "raise" -> Some(1)
      [] OTHER -> None

NextMain ==
    \/ MainParse
    \/ Visit
    \/ VisitRaises
    \/ NewGenerator
    \/ WriteHeader
    \/ WriteImports
    \/ WriteTypeHelpers
    \/ WriteEnums
    \/ WriteForwardDeclarations
    \/ WriteFuncTypedefs
    \/ WriteStructs
    \/ WriteLibraryLoader
    \/ WriteFunctionBindings
    \/ WriteFooter
    \/ WriteOutput

SpecMain == InitMain /\ [][NextMain]_vars

\* ------------------------------------------------------------------------
\* Reading the emitted text
\* ------------------------------------------------------------------------

\* whether the generator has run through stage s
Past(s) ==
    /\ pc \in {GenerateOrder[i] : i \in 1..Len(GenerateOrder)}
    /\ \E i, j \in 1..Len(GenerateOrder) :
          GenerateOrder[i] = s /\ GenerateOrder[j] = pc /\ i < j

\* whether a step is one of generate(): a _write_* method with the
\* _convert_type calls it makes
EmissionStep == pc \in {GenerateOrder[i] : i \in 1..Len(GenerateOrder)} \ {"done"}

\* the section a line of the emitted text belongs to, by what the line says:
\* 1 primitive-type alias, 2 enum constant binding, 3 record forward
\* declaration, 4 function-pointer-type constructor, 5 record field list,
\* 6 library loader, 7 signature registration, 8 public manifest; 0 for
\* banners, comments, blank lines and the helper functions
Section(line) ==
    LET c1 == ChAt(line, 1)
        cn == ChAt(line, Len(line))
    IN  IF c1 = "" \/ c1 = "#" THEN 0
        ELSE IF c1 = " " THEN
            IF StartsWith(line, "    (\"") THEN 5
            ELSE IF StartsWith(line, "    if hasattr(lib, ")
                    \/ StartsWith(line, "        lib.") THEN 7
            ELSE IF StartsWith(line, "    '") THEN 8
            ELSE 0
        ELSE IF IsDigit(cn) THEN
            LET eq == Find(line, " = ")
            IN  IF eq > 1 /\ IsIntLiteral(SubSeq(line, eq + 3, Len(line))) THEN 2 ELSE 0
        ELSE IF cn = ")" THEN
            IF StartsWith(line, "c_") /\ Find(line, "_p = POINTER(") > 0 THEN 1
            ELSE IF Find(line, " = CFUNCTYPE(") > 0 THEN 4
            ELSE 0
        ELSE IF StartsWith(line, "class ") /\ EndsWith(line, "(Structure): pass") THEN 3
        ELSE IF EndsWith(line, "._fields_ = [") THEN
            IF line = "__all__ = [" THEN 8 ELSE 5
        ELSE IF StartsWith(line, "def load_sokol_dll(") \/ line = "_sokol_lib = None" THEN 6
        ELSE IF line = "def _setup_function_prototypes(lib):" THEN 7
        ELSE IF line = "__all__ = [" THEN 8
        ELSE 0

\* the sections of the lines that belong to one, in the order of the text
Sections(lines) ==
    SelectSeq([i \in 1..Len(lines) |-> Section(lines[i])], LAMBDA sec : sec # 0)

\* whether no section comes back after a later one began
SectionsAscend(lines) ==
    LET secs == Sections(lines)
    IN  \A i \in 1..(Len(secs) - 1) : secs[i] <= secs[i + 1]

\* the sections that occur in lines
SectionsOf(lines) == {Sections(lines)[i] : i \in 1..Len(Sections(lines))}

\* C1: after every step of generate() the sections of the emitted text
\* appear in the fixed order aliases, enum constants, forward declarations,
\* function-pointer-type constructors, field lists, loader, signature
\* registration, manifest: no line of an earlier section comes after a line
\* of a later one
C1_SectionOrder == [][EmissionStep => SectionsAscend(output_lines')]_vars

\* C1 witness: a finished text that holds all eight sections
C1_Witness == pc = "done" /\ SectionsOf(output_lines) = 1..8

\* the value bound to name after the enum bindings of lines ran top to bottom:
\* the last line "name = <integer>" decides; None if there is none
RECURSIVE ReadBackFrom(_, _, _)
ReadBackFrom(lines, name, i) ==
    IF i = 0 THEN None
    ELSE IF StartsWith(lines[i], name \o " = ")
            /\ IsIntLiteral(SubSeq(lines[i], Len(name) + 4, Len(lines[i])))
         THEN Some(ParseInt(SubSeq(lines[i], Len(name) + 4, Len(lines[i]))))
         ELSE ReadBackFrom(lines, name, i - 1)

ReadBack(lines, name) == ReadBackFrom(lines, name, Len(lines))

\* the (name, value) pairs of all enums in the order they are emitted
RECURSIVE EnumPairs(_)
EnumPairs(enums) ==
    IF enums = <<>> THEN <<>> ELSE Head(enums).v \o EnumPairs(Tail(enums))

\* C2: every recorded (constant-name, value) pair reads back from
\* the emitted enum section as exactly that value under that name
C2_RoundTripEveryPair ==
    Past("enums") =>
        \A i \in 1..Len(EnumPairs(parser.enums)) :
            LET pair == EnumPairs(parser.enums)[i]
            IN  ReadBack(output_lines, pair.name) = Some(pair.value)

\* the position of the first line that starts with prefix, 0 if there is none
PrefixIndex(lines, prefix) ==
    LET hits == {i \in 1..Len(lines) : StartsWith(lines[i], prefix)}
    IN  IF hits = {} THEN 0 ELSE CHOOSE i \in hits : \A j \in hits : i <= j

RECURSIVE EntriesFrom(_, _)
\* the entries of the field list whose first entry line would be lines[i]
EntriesFrom(lines, i) ==
    IF i > Len(lines) \/ ~StartsWith(lines[i], "    (\"") THEN <<>>
    ELSE <<EntryOf(lines[i])>> \o EntriesFrom(lines, i + 1)

\* <record>._fields_ as the emitted text assigns it
FieldList(lines, record) ==
    EntriesFrom(lines, LineIndex(lines, record \o "._fields_ = [") + 1)

\* C3: the emitted field list of every captured record lists exactly the
\* fields of the declaration the record was captured from, in declaration
\* order, none dropped, added or reordered, and a field declared as an array
\* of literal length n >= 1 carries that length
C3_LayoutFidelity ==
    Past("structs") =>
        \A k \in 1..Len(parser.structs) :
            LET record == parser.structs[k].k
                entries == FieldList(output_lines, record)
                declared == Get(origin, record)
            IN  /\ LineIndex(output_lines, record \o "._fields_ = [") > 0
                /\ Len(entries) = Len(declared)
                /\ \A i \in 1..Len(declared) :
                      /\ entries[i].name = declared[i].name
                      /\ declared[i].size # None /\ declared[i].size[1] >= 1
                            => EndsWith(entries[i].type, " * " \o Str(declared[i].size[1]))

\* C3 witness: the record sg_desc (float a; float b[4]; ...) is emitted with
\* a first, then b with the length 4 attached
C3_Witness ==
    /\ pc = "done"
    /\ Has(origin, "sg_desc")
    /\ Len(Get(origin, "sg_desc")) = 4
    /\ SubSeq(FieldList(output_lines, "sg_desc"), 1, 2)
         = <<[name |-> "a", type |-> "c_float"], [name |-> "b", type |-> "c_float * 4"]>>

\* C5: for every field of a captured record that is declared as a pointer to
\* function, a function-pointer type named after the field is registered, the
\* field is emitted with that name as its type, and the constructor line of
\* the name comes before the field list of the record
C5_FuncPtrFields ==
    Past("structs") =>
        \A k \in 1..Len(parser.structs) :
            LET record == parser.structs[k].k
                entries == FieldList(output_lines, record)
                declared == Get(origin, record)
            IN  \A i \in 1..Len(declared) :
                   declared[i].func_ptr =>
                      LET func_ptr_name == "_FuncPtr_" \o declared[i].name
                          ctor == PrefixIndex(output_lines, func_ptr_name \o " = CFUNCTYPE(")
                      IN  /\ Has(parser.func_typedefs, func_ptr_name)
                          /\ i <= Len(entries)
                          /\ entries[i].type = func_ptr_name
                          /\ ctor > 0
                          /\ ctor < LineIndex(output_lines, record \o "._fields_ = [")

\* C9: every record seen only as a forward declaration has its placeholder
\* line in the emitted text once the forward declarations are written
C9_StubEmission ==
    Past("forward") =>
        \A name \in parser.forward_decls \ KeySet(parser.structs) :
            LineIndex(output_lines, "class " \o name \o "(Structure): pass") > 0

\* the names listed in __all__ of the emitted text
Manifest(lines) ==
    LET open == LineIndex(lines, "__all__ = [")
    IN  {SubSeq(lines[i], 6, Len(lines[i]) - 2) :
            i \in {j \in (open + 1)..Len(lines) : StartsWith(lines[j], "    '")}}

\* the names of the symbol table that _write_footer exports
TableNames(p) ==
    {EnumPairs(p.enums)[i].name : i \in 1..Len(EnumPairs(p.enums))}
      \cup KeySet(p.structs) \cup KeySet(p.func_typedefs)

C4_ArrayOfRecordPointers ==
    \A k \in 1..Len(parser.structs) :
        \A n \in {1, 2, 8} :
            LET S == parser.structs[k].k
            IN  ConvertType(parser, generated_types, S \o " *[" \o Str(n) \o "]")
                  = "POINTER(" \o S \o ") * " \o Str(n)

\* C6: a load_sokol_dll call on a library that opens returns the handle and
\* stores it, and the return and parameter types are bound on exactly the
\* captured functions the library exports
C6_PartialLibraryLoad ==
    load_result.status # "none" /\ load_result.error # "OSError" =>
        /\ load_result.status = "returned"
        /\ sokol_lib = Some(load_result.lib)
        /\ KeySet(load_result.lib.restype)
             = load_result.lib.exports \cap KeySet(parser.functions)
        /\ KeySet(load_result.lib.argtypes)
             = load_result.lib.exports \cap KeySet(parser.functions)

\* C6 witness: a call returned on a library that exports one of two captured
\* functions; that one is bound and the other is not
C6_Witness ==
    /\ load_result.status = "returned"
    /\ KeySet(parser.functions) = {"sg_setup", "sapp_width"}
    /\ load_result.lib.exports = {"sapp_width"}
    /\ KeySet(load_result.lib.restype) = {"sapp_width"}

NameTables == {"enums", "structs", "typedefs"}

\* the names captured in p
CapturedNames(p) == UNION {KeySet(p[t]) : t \in NameTables}

\* whether a step is parse_headers visiting one more top-level declaration
VisitStep == pc = "parse" /\ pc' = "parse"

\* C8 as stated: once a name is captured as an enum, a record or a scalar
\* typedef, a later declaration of an enum, struct or typedef of that name is
\* ignored: the name enters no further table and its data stay those of its
\* first capture
C8_FirstSeenWinsAsStated ==
    [][VisitStep =>
         \A name \in CapturedNames(parser) :
            \A t \in NameTables :
               /\ Has(parser'[t], name) <=> Has(parser[t], name)
               /\ Has(parser[t], name) => Get(parser'[t], name) = Get(parser[t], name)]_vars

\* C8 amended: the data recorded for a name in the enum, record or scalar
\* typedef table stay those of its first capture in that table (a later
\* declaration of the same kind is ignored), and a later typedef of a name
\* captured in any of the three tables is ignored
C8_FirstSeenWins ==
    [][VisitStep =>
         \A name \in CapturedNames(parser) :
            /\ \A t \in NameTables :
                  Has(parser[t], name) =>
                     /\ Has(parser'[t], name)
                     /\ Get(parser'[t], name) = Get(parser[t], name)
            /\ Has(parser'.typedefs, name) => Has(parser.typedefs, name)]_vars

\* C8 witness: enum sg_backend was captured, then a function body that
\* redeclares typedef sg_backend and enum sg_backend was visited: both were
\* ignored, and the new enum of the body was captured
C8_Witness ==
    /\ pc = "parse" /\ pos = 2 /\ run = 1
    /\ Universe[decls[1]] = DeclEnumBackend /\ Universe[decls[2]] = DeclHelper
    /\ Get(parser.enums, "sg_backend") = EnumValues(DeclEnumBackend.children)
    /\ ~Has(parser.typedefs, "sg_backend")
    /\ Has(parser.enums, "sg_local")


\* ------------------------------------------------------------------------
\* main: exit code, parse errors, the combined source file
\* ------------------------------------------------------------------------

\* header parsing failed: index.parse raised, reading the diagnostics or
\* visiting raised, or clang reported an Error or Fatal diagnostic
ParseFailed == diag \/ failure \in {"index.parse", "visit"}

C13_TmpFileCleanup ==
    pc \notin {"main", "parse"} => ~tmp_file

\* ------------------------------------------------------------------------
\* Records: forward declarations and bodies
\* ------------------------------------------------------------------------

\* the positions of the forward declaration of a record in the emitted text
ForwardsOf(lines, record) ==
    LET forward == "class " \o record \o "(Structure): pass"
    IN  {i \in 1..Len(lines) : lines[i] = forward}

\* the positions where the field list of a record is assigned
BodiesOf(lines, record) ==
    LET body == record \o "._fields_ = ["
    IN  {i \in 1..Len(lines) : lines[i] = body}

C15_MonotonicSignatureMaps ==
    [][VisitStep =>
         \A t \in {"func_typedefs", "functions"} :
            \A name \in KeySet(parser[t]) :
               /\ Has(parser'[t], name)
               /\ Get(parser'[t], name) = Get(parser[t], name)]_vars

\* ------------------------------------------------------------------------
\* Type conversion
\* ------------------------------------------------------------------------

\* what "<pointee> *" converts to with the tables of the current state
PointerTo(pointee) == ConvertType(parser, generated_types, pointee \o " *")

\* C16: "R *" and "const R *" convert to POINTER(R) for every known record R,
\* "P *" to POINTER(<target of P>) for every primitive P but void and char;
\* c_void_p is chosen only when the pointee is void or neither a known record
\* nor a primitive, c_char_p only when the pointee is char
C16_PointerRule ==
    LET records == KeySet(parser.structs) \cup generated_types
        pointees == records \cup C_TO_CTYPES_KEYS \cup {"sg_unknown"}
    IN  /\ \A R \in records :
              /\ PointerTo(R) = "POINTER(" \o R \o ")"
              /\ PointerTo("const " \o R) = "POINTER(" \o R \o ")"
        /\ \A P \in C_TO_CTYPES_KEYS \ {"void", "char"} :
              PointerTo(P) = "POINTER(" \o C_TO_CTYPES(P) \o ")"
        /\ \A pointee \in pointees :
              /\ PointerTo(pointee) = "c_void_p" =>
                    pointee = "void" \/ pointee \notin records \cup C_TO_CTYPES_KEYS
              /\ PointerTo(pointee) = "c_char_p" => pointee = "char"

\* C17: every field declared as an array of constant length n >= 0 is stored
\* with its element type and n apart, and is emitted as the converted element
\* type repeated n times, never as a bare scalar
C17_ArrayFields ==
    Past("structs") =>
        \A k \in 1..Len(parser.structs) :
            LET record == parser.structs[k].k
                stored == parser.structs[k].v
                entries == FieldList(output_lines, record)
                declared == Get(origin, record)
            IN  \A i \in 1..Len(declared) :
                   declared[i].size # None =>
                      /\ stored[i].size = declared[i].size
                      /\ entries[i].type
                           = ConvertType(parser, generated_types, stored[i].type)
                               \o " * " \o Str(declared[i].size[1])

\* ------------------------------------------------------------------------
\* Typedefs
\* ------------------------------------------------------------------------

\* the tables a typedef name can end in
TypedefTables == {"func_typedefs", "enums", "structs", "typedefs"}

\* the table the claim assigns to a typedef declaration, {} for dropped
TypedefOutcome(cursor) ==
    LET name == cursor.spelling
        underlying == cursor.underlying
        anonymous(kind) == \E i \in 1..Len(cursor.children) :
                              /\ cursor.children[i].kind = kind
                              /\ cursor.children[i].spelling = ""
    IN  IF underlying.kind = "POINTER" /\ underlying.inner[1].kind = "FUNCTIONPROTO"
        THEN {"func_typedefs"}
        ELSE IF underlying.spelling = "struct " \o name THEN {}
        ELSE IF anonymous("ENUM_DECL") THEN {"enums"}
        ELSE IF anonymous("STRUCT_DECL") THEN {"structs"}
        ELSE {"typedefs"}

\* C18: a typedef whose name is not yet a typedef, record or enum key ends in
\* exactly the table its underlying type selects (function-pointer type,
\* dropped, anonymous enum, anonymous record, otherwise scalar typedef mapped
\* to the resolved underlying type); a typedef of a differently named record
\* is a scalar typedef
C18_TypedefClassification ==
    [][VisitStep =>
         LET cursor == Universe[decls'[pos']]
             name == cursor.spelling
         IN  /\ cursor.kind = "TYPEDEF_DECL"
             /\ ~Has(parser.typedefs, name)
             /\ ~Has(parser.structs, name)
             /\ ~Has(parser.enums, name)
             => /\ {t \in TypedefTables : Has(parser'[t], name)} = TypedefOutcome(cursor)
                /\ TypedefOutcome(cursor) = {"typedefs"} =>
                      Get(parser'.typedefs, name) = GetTypeString(cursor.underlying)]_vars

\* the type strings of a sequence of [name, type] entries
TypesOf(entries) == {entries[i].type : i \in 1..Len(entries)}

\* every type string the symbol table holds
TableTypeStrings(p) ==
    UNION {TypesOf(p.structs[k].v) : k \in 1..Len(p.structs)}
      \cup {p.typedefs[k].k : k \in 1..Len(p.typedefs)}
      \cup {p.typedefs[k].v : k \in 1..Len(p.typedefs)}
      \cup UNION {{p.func_typedefs[k].v.ret}
                    \cup {p.func_typedefs[k].v.args[i] :
                            i \in 1..Len(p.func_typedefs[k].v.args)} :
                  k \in 1..Len(p.func_typedefs)}
      \cup UNION {{p.functions[k].v.ret} \cup TypesOf(p.functions[k].v.args) :
                  k \in 1..Len(p.functions)}

\* C19: no scalar typedef resolves to itself, so _convert_type ends with a
\* result for every type string of the symbol table and generation never
\* stops on a recursion error
C19_ConversionTerminates ==
    /\ \A s \in TableTypeStrings(parser) :
          ConvertType(parser, generated_types, s) # RecursionError
    /\ pc # "crashed"

\* ------------------------------------------------------------------------
\* Emission and the symbol table
\* ------------------------------------------------------------------------

\* the five maps of the symbol table
SymbolMaps == {"enums", "structs", "typedefs", "func_typedefs", "functions"}

\* C20: every step of generate() leaves the enum, record, scalar-typedef,
\* function-pointer-type and function-signature maps as they were: keys,
\* values and order
C20_EmissionReadOnly ==
    [][EmissionStep => \A t \in SymbolMaps : parser'[t] = parser[t]]_vars

\* a finished text written from a table with a record, a function-pointer
\* type and a function, all still in the table as they were captured
C20_Witness ==
    /\ pc = "done"
    /\ Keys(parser.structs) = <<"sg_desc">>
    /\ Has(parser.func_typedefs, "_FuncPtr_cb")
    /\ Get(parser.func_typedefs, "_FuncPtr_cb") = [ret |-> "void", args |-> <<"int">>]
    /\ Keys(parser.functions) = <<"sg_setup">>
    /\ LineIndex(output_lines, "sg_desc._fields_ = [") > 0
    /\ LineIndex(output_lines, "    if hasattr(lib, 'sg_setup'):") > 0

\* ------------------------------------------------------------------------
\* Functions
\* ------------------------------------------------------------------------

\* whether a name starts with one of the prefixes of the library
HasLibraryPrefix(name) ==
    \E prefix \in {"sg_", "sapp_", "sglue_", "slog_"} : StartsWith(name, prefix)

\* the function declarations of library headers under the top-level
\* declarations visited so far, in the order of the translation unit
VisitedFunctions ==
    SelectSeq(FlattenAll([i \in 1..pos |-> Universe[decls[i]]]),
              LAMBDA c : c.kind = "FUNCTION_DECL" /\ InSokolFile(c.file))

\* the parameters of a function declaration as the header writes them
DeclaredParams(cursor) ==
    LET params == OfKind(cursor.children, "PARM_DECL")
    IN  [i \in 1..Len(params) |->
            [name |-> IF params[i].spelling = "" THEN "arg" \o Str(i - 1)
                      ELSE params[i].spelling,
             type |-> GetTypeString(params[i].type)]]

\* C21: every key of the function-signature map starts with sg_, sapp_,
\* sglue_ or slog_, and every visited function declaration of a library
\* header with such a name is in the map with the return type and the
\* ordered parameters of the first declaration of that name
C21_FunctionFilter ==
    LET visited == VisitedFunctions
    IN  /\ \A k \in 1..Len(parser.functions) : HasLibraryPrefix(parser.functions[k].k)
        /\ \A i \in 1..Len(visited) :
              /\ HasLibraryPrefix(visited[i].spelling)
              /\ \A j \in 1..(i - 1) : visited[j].spelling # visited[i].spelling
              => /\ Has(parser.functions, visited[i].spelling)
                 /\ Get(parser.functions, visited[i].spelling)
                      = [ret |-> GetTypeString(visited[i].result_type),
                         args |-> DeclaredParams(visited[i])]

\* sg_setup was declared with a named parameter, then a function without a
\* library prefix that declares sg_setup again without the name was visited:
\* the first signature is kept and the helper is not captured
C21_Witness ==
    /\ pc = "parse" /\ pos = 2 /\ run = 1
    /\ Universe[decls[1]] = DeclFuncSetup /\ Universe[decls[2]] = DeclHelper
    /\ Keys(parser.functions) = <<"sg_setup">>
    /\ Get(parser.functions, "sg_setup").args = <<[name |-> "desc", type |-> "const sg_desc *"]>>

\* the signature a pointer-to-function type declares
DeclaredSignature(type) ==
    [ret |-> GetTypeString(type.inner[1].inner[1]),
     args |-> TypeStrings(type.inner[1].args)]

\* C22: every record field declared as a pointer to function is emitted with
\* a function-pointer type whose constructor has the return type and the
\* ordered parameter types of the declaration of that field, also when two
\* records have such a field of the same name
C22_FuncPtrSignatures ==
    Past("structs") =>
        \A k \in 1..Len(parser.structs) :
            LET record == parser.structs[k].k
                entries == FieldList(output_lines, record)
                declared == Get(origin, record)
            IN  \A i \in 1..Len(declared) :
                   declared[i].func_ptr =>
                      /\ i <= Len(entries)
                      /\ LineIndex(output_lines,
                                   FuncTypedefLine(parser, generated_types,
                                       [k |-> entries[i].type,
                                        v |-> DeclaredSignature(declared[i].type)])) > 0

\* C23: once the module is written, every name its top-level statements look
\* up (in function-pointer-type constructors, in record field lists and in
\* the annotation of make_range) is bound by an earlier line, so importing
\* the module raises no NameError
C23_DefinedBeforeUse == imported # "NameError"


\* whether the emitted field list of record holds a value (or an array of
\* values) of the record embedded
Embeds(lines, record, embedded) ==
    \E i \in 1..Len(FieldList(lines, record)) :
        LET type == FieldList(lines, record)[i].type
        IN  type = embedded \/ StartsWith(type, embedded \o " * ")

\* C24: once the record bodies are written, for every two captured records A
\* and B such that a field of A is a B by value or an array of B by value,
\* the field list of B is written before the field list of A
C24_EmbeddedBodyFirst ==
    Past("structs") =>
        \A a \in 1..Len(parser.structs), b \in 1..Len(parser.structs) :
            LET A == parser.structs[a].k
                B == parser.structs[b].k
            IN  (a # b /\ Embeds(output_lines, A, B)) =>
                    LineIndex(output_lines, B \o "._fields_ = [")
                        < LineIndex(output_lines, A \o "._fields_ = [")


====
